---- MODULE Spec2Model ----
(***************************************************************************)
(* State-machine model of the Life Codex simulation kernel:                *)
(*   - the archetype entity store   (src/src/core/ECSSetup.ts)             *)
(*   - the fixed-step scheduler     (src/src/core/LoopManager.ts)          *)
(*   - the worker bridge            (src/src/core/WorkerBridge.ts)         *)
(*   - chunk streaming, object pool (src/unnamed/part_001)                 *)
(* Each subsystem has its own specification (SpecWorld, SpecLoop, ...);    *)
(* the variables of the other subsystems stay at their initial value.      *)
(***************************************************************************)
EXTENDS Integers, Sequences, FiniteSets, TLC

VARIABLES
    nextEntityId,   \* World.nextEntityId
    archetypes,     \* World.archetypes: the tables, in Map insertion order
    metadata,       \* World.metadata: EntityId -> EntityMeta
    ret,            \* the error the last World call raised ("none" when it returned)
    ref,            \* per entity: bit -> what the caller last wrote to it
    accumulator,    \* LoopManager.accumulator, in ticks of 1/3000 s
    running,        \* LoopManager.running
    frameIndex,     \* LoopManager.frameIndex
    rafId,          \* LoopManager.rafId, 0 for null
    lastTimestampMs,\* LoopManager.lastTimestampMs: <<>> for null, <<t>> otherwise
    pending,        \* frame callbacks requested and neither run nor cancelled
    pc,             \* where the running frame callback stands: "idle" between
                    \* callbacks, else the hook it is inside of
    fixedSteps,     \* tick's local fixedSteps
    frameDt,        \* tick's local frameDt, in ticks
    alphaTicks,     \* tick's local alpha, as alpha * fixedStep
    hookLog,        \* the hooks the current (or last) callback invoked, in order
    cb,             \* about the current (or last) callback: how it ended, the gap
                    \* it followed, whether the purge fired, whether a hook
                    \* called stop()
    sinceStart,     \* frame callbacks run while Running since the last start()
                    \* took effect: 0, 1, or 2 for two and more
    lastBuckets,    \* the bucket indices of the last AI ticks, oldest first,
                    \* at most BucketCount of them
    runs,           \* two runs of one LoopManager configuration, side by side:
                    \* per run its fields and what its hooks were called with
    channels,       \* WorkerBridge.channels: the channels, in Map insertion order
    blocks,         \* slot 0 of the header of every SharedArrayBuffer allocated,
                    \* in allocation order: a block is named by its index here
    terminated,     \* the workers terminate() was called on
    events,         \* what the bridge did so far, in order: messages posted,
                    \* atomic stores, notifies, terminations
    bridgeCalls,    \* number of WorkerBridge calls made
    activeChunks,   \* ChunkStreamingManager.activeChunks: key -> ChunkState,
                    \* the key `cx:cy` being the pair <<cx, cy>>
    lastFocus,      \* the focus chunk of the last updateFocus, <<>> before it
    objects,        \* ObjectPool.objects: their number; object i sits at index i
    freeIndices,    \* ObjectPool.freeIndices, a stack with its top last
    inUse,          \* ObjectPool.inUse
    debug,          \* ObjectPool.debug: the PoolDebugTracker's fields
    acquired,       \* what the last ObjectPool call returned: <<item>> for
                    \* acquire, <<>> for release
    handedOut       \* per object, the acquire() calls that returned it less
                    \* the release() calls made for it while it was handed out

worldVars == <<nextEntityId, archetypes, metadata>>
ecsVars == <<nextEntityId, archetypes, metadata, ret, ref>>
loopVars == <<accumulator, running, frameIndex, rafId, lastTimestampMs, pending,
              pc, fixedSteps, frameDt, alphaTicks, hookLog, cb, sinceStart, lastBuckets>>
vars == <<nextEntityId, archetypes, metadata, ret, ref,
          accumulator, running, frameIndex, rafId, lastTimestampMs, pending,
          pc, fixedSteps, frameDt, alphaTicks, hookLog, cb, sinceStart, lastBuckets,
          runs, channels, blocks, terminated, events, bridgeCalls,
          activeChunks, lastFocus,
          objects, freeIndices, inUse, debug, acquired, handedOut>>

bridgeVars == <<channels, blocks, terminated, events, bridgeCalls>>
chunkVars == <<activeChunks, lastFocus>>
poolVars == <<objects, freeIndices, inUse, debug, acquired, handedOut>>

\* What the operations of one subsystem leave alone: the other subsystems.
outsideWorld == <<loopVars, runs, bridgeVars, chunkVars, poolVars>>
outsideLoop == <<ecsVars, runs, bridgeVars, chunkVars, poolVars>>
outsideRuns == <<ecsVars, loopVars, bridgeVars, chunkVars, poolVars>>
outsideBridge == <<ecsVars, loopVars, runs, chunkVars, poolVars>>
outsideChunks == <<ecsVars, loopVars, runs, bridgeVars, poolVars>>
outsidePool == <<ecsVars, loopVars, runs, bridgeVars, chunkVars>>

----------------------------------------------------------------------------
(* Bounds of the model.                                                    *)

\* at most MaxBridgeCalls calls are made on the WorkerBridge
MaxBridgeCalls == 4

\* the pool creates at most MaxPoolObjects objects
MaxPoolObjects == 3

\* at most MaxLeakSuspects releases are refused
MaxLeakSuspects == 2

\* createEntity is called at most MaxEntities times
MaxEntities == 2

\* frame callbacks simulate while frameIndex < MaxFrames
MaxFrames == 2

\* at most MaxPending frame callbacks are requested at a time
MaxPending == 2

----------------------------------------------------------------------------
(* Entity store: layouts, masks, typed arrays.                             *)

\* ArchetypeTable constructor: initialCapacity = 64
InitialCapacity == 64

\* The layouts handed to the World constructor: a float32 component without
\* default and a uint32 component with default 5.
Layouts ==
    << [bit |-> 1, kind |-> "float32", hasDefault |-> FALSE, defaultValue |-> 0],
       [bit |-> 2, kind |-> "uint32",  hasDefault |-> TRUE,  defaultValue |-> 5] >>

LayoutBits == {Layouts[i].bit : i \in DOMAIN Layouts}

LayoutOf(bit) == CHOOSE l \in {Layouts[i] : i \in DOMAIN Layouts} : l.bit = bit

\* layout?.defaultValue ?? 0
Fallback(bit) == IF LayoutOf(bit).hasDefault THEN LayoutOf(bit).defaultValue ELSE 0

\* a & b on non-negative integers
RECURSIVE BitAnd(_, _)
BitAnd(a, b) ==
    IF a = 0 \/ b = 0 THEN 0
    ELSE (a % 2) * (b % 2) + 2 * BitAnd(a \div 2, b \div 2)

\* a | b on non-negative integers
RECURSIVE BitOr(_, _)
BitOr(a, b) ==
    IF a = 0 THEN b
    ELSE IF b = 0 THEN a
    ELSE (IF a % 2 = 1 \/ b % 2 = 1 THEN 1 ELSE 0) + 2 * BitOr(a \div 2, b \div 2)

\* a & ~b on non-negative integers
BitClear(a, b) == a - BitAnd(a, b)

\* Math.fround on an integer: exact up to 2^24, then round-half-even on a
\* spacing of 2 (the model's values stay below 2^25).
Fround(v) ==
    LET a == IF v < 0 THEN -v ELSE v
        s == IF v < 0 THEN -1 ELSE 1
        r == IF a <= 16777216 \/ a % 2 = 0 THEN a
             ELSE IF ((a - 1) \div 2) % 2 = 0 THEN a - 1 ELSE a + 1
    IN s * r

\* What a typed array of kind `kind` holds after `column[row] = v`.
\* Uint32 is the identity on 0 <= v < 2^32, which covers the model's inputs.
StoreAs(kind, v) ==
    CASE kind = "float32" -> Fround(v)
      [] kind = "int8"    -> ((v + 128) % 256) - 128
      [] kind = "uint32"  -> v

\* A typed array is modelled by its live prefix, the rows [0, length) of its
\* table: a row at or beyond length is written by insert before length makes
\* it readable, so what the buffer holds there is never observed.
EmptyArray == [i \in {} |-> 0]

ReadArray(arr, i) == IF i \in DOMAIN arr THEN arr[i] ELSE 0

WriteArray(arr, i, v) == [j \in DOMAIN arr \cup {i} |-> IF j = i THEN v ELSE arr[j]]

\* arr.subarray(0, length)
CopyPrefix(arr, length) == [j \in {k \in DOMAIN arr : k < length} |-> arr[j]]

Max(a, b) == IF a >= b THEN a ELSE b

----------------------------------------------------------------------------
(* ArchetypeTable                                                          *)

NewTable(mask) ==
    [ mask     |-> mask,
      length   |-> 0,
      capacity |-> Max(1, InitialCapacity),
      entities |-> EmptyArray,
      columns  |-> [b \in {x \in LayoutBits : BitAnd(mask, x) # 0} |-> EmptyArray] ]

RECURSIVE Doubled(_, _)
Doubled(capacity, minCapacity) ==
    IF capacity < minCapacity THEN Doubled(capacity * 2, minCapacity) ELSE capacity

EnsureCapacity(t, minCapacity) ==
    IF t.capacity >= minCapacity THEN t
    ELSE [t EXCEPT !.capacity = Doubled(t.capacity, minCapacity),
                   !.entities = CopyPrefix(t.entities, t.length),
                   !.columns  = [b \in DOMAIN t.columns |-> CopyPrefix(t.columns[b], t.length)]]

\* insert that writes the new entity's values into row 0 as well.
InsertOverFirstRow(t, entityId, values) ==
    LET g   == EnsureCapacity(t, t.length + 1)
        row == g.length
    IN [g EXCEPT
          !.entities = WriteArray(@, row, entityId),
          !.columns  = [b \in DOMAIN g.columns |->
                          LET v == StoreAs(LayoutOf(b).kind,
                                           IF b \in DOMAIN values THEN values[b]
                                           ELSE Fallback(b))
                          IN WriteArray(WriteArray(g.columns[b], 0, v), row, v)],
          !.length   = g.length + 1]

\* insert(entityId, values): `values` is a partial record bit -> number
Insert(t, entityId, values) ==
    LET g   == EnsureCapacity(t, t.length + 1)
        row == g.length
    IN [g EXCEPT
          !.entities = WriteArray(@, row, entityId),
          !.columns  = [b \in DOMAIN g.columns |->
                          WriteArray(g.columns[b], row,
                                     StoreAs(LayoutOf(b).kind,
                                             IF b \in DOMAIN values THEN values[b]
                                             ELSE Fallback(b)))],
          !.length   = g.length + 1]

\* removeAt that forgets `this.entities[row] = this.entities[last]`.
RemoveAtNoSwap(t, row) ==
    IF row < 0 \/ row >= t.length
    THEN [table |-> t, moved |-> <<>>, threw |-> TRUE]
    ELSE LET last == t.length - 1 IN
         [table |-> [t EXCEPT
                       !.entities = CopyPrefix(@, last),
                       !.columns  = [b \in DOMAIN t.columns |->
                                       CopyPrefix(
                                           WriteArray(t.columns[b], row,
                                                      ReadArray(t.columns[b], last)),
                                           last)],
                       !.length   = last],
          moved |-> IF row # last THEN <<ReadArray(t.entities, last)>> ELSE <<>>,
          threw |-> FALSE]

\* removeAt(row): the table afterwards, the moved entity (<<>> for null), and
\* whether the range check threw.
RemoveAt(t, row) ==
    IF row < 0 \/ row >= t.length
    THEN [table |-> t, moved |-> <<>>, threw |-> TRUE]
    ELSE LET last == t.length - 1 IN
         IF row # last
         THEN [table |-> [t EXCEPT
                            !.entities = CopyPrefix(
                                WriteArray(@, row, ReadArray(t.entities, last)), last),
                            !.columns  = [b \in DOMAIN t.columns |->
                                            CopyPrefix(
                                                WriteArray(t.columns[b], row,
                                                           ReadArray(t.columns[b], last)),
                                                last)],
                            !.length   = last],
               moved |-> <<ReadArray(t.entities, last)>>,
               threw |-> FALSE]
         ELSE [table |-> [t EXCEPT
                            !.entities = CopyPrefix(@, last),
                            !.columns  = [b \in DOMAIN t.columns |->
                                            CopyPrefix(t.columns[b], last)],
                            !.length   = last],
               moved |-> <<>>,
               threw |-> FALSE]

HasComponent(t, componentBit) == componentBit \in DOMAIN t.columns

EntityAt(t, row) == ReadArray(t.entities, row)

\* compatibleWith that accepts any overlap instead of a superset.
CompatibleAny(t, requiredMask) == BitAnd(t.mask, requiredMask) # 0

CompatibleWith(t, requiredMask) == BitAnd(t.mask, requiredMask) = requiredMask

ReadComponent(t, row, componentBit) == ReadArray(t.columns[componentBit], row)

WriteComponent(t, row, componentBit, value) ==
    [t EXCEPT !.columns[componentBit] =
                  WriteArray(@, row, StoreAs(LayoutOf(componentBit).kind, value))]

----------------------------------------------------------------------------
(* World                                                                   *)

\* Index in `arch` of the table of `mask`, 0 when the Map has no such key.
ArchetypeIndex(arch, mask) ==
    IF \E i \in DOMAIN arch : arch[i].mask = mask
    THEN CHOOSE i \in DOMAIN arch : arch[i].mask = mask
    ELSE 0

GetOrCreateArchetype(arch, mask) ==
    IF ArchetypeIndex(arch, mask) # 0
    THEN [arch |-> arch, idx |-> ArchetypeIndex(arch, mask)]
    ELSE [arch |-> Append(arch, NewTable(mask)), idx |-> Len(arch) + 1]

\* migrateEntity that does not carry the existing column value over.
NextValueNoCarry(fromTable, row, overrides, bit) ==
    IF bit \in DOMAIN overrides THEN overrides[bit] ELSE Fallback(bit)

\* The value migrateEntity resolves for a bit of the target mask:
\* override > existing column value > layout default.
NextValue(fromTable, row, overrides, bit) ==
    IF bit \in DOMAIN overrides THEN overrides[bit]
    ELSE IF HasComponent(fromTable, bit) THEN ReadComponent(fromTable, row, bit)
    ELSE Fallback(bit)

\* The row of the source table that migrateEntity hands to removeAt.
RowToRemove(meta) == meta.row

\* movedMeta.row left at the row the moved entity came from.
MovedRowStale(meta, lastRow) == lastRow

\* The row recorded for the entity that removeAt moved from lastRow.
MovedRow(meta, lastRow) == meta.row

\* A meta record rebuilt from scratch, as createEntity builds it.
MigratedMetaFresh(meta, nextMask, toIdx, nextRow) ==
    [mask |-> nextMask, table |-> toIdx, row |-> nextRow, active |-> TRUE]

\* The migrated entity's meta record: mask, table and row are reassigned.
MigratedMeta(meta, nextMask, toIdx, nextRow) ==
    [meta EXCEPT !.mask = nextMask, !.table = toIdx, !.row = nextRow]

\* migrateEntity(entityId, nextMask, overrides) on a known entity: the tables
\* and the metadata afterwards, and the error it raised.
MigrateEntity(arch, md, entityId, nextMask, overrides) ==
    LET meta       == md[entityId]
        fromIdx    == meta.table
        fromTable  == arch[fromIdx]
        nextValues == [b \in {x \in LayoutBits : BitAnd(nextMask, x) # 0} |->
                          NextValue(fromTable, meta.row, overrides, b)]
        got        == GetOrCreateArchetype(arch, nextMask)
        toIdx      == got.idx
        nextRow    == got.arch[toIdx].length
        arch1      == [got.arch EXCEPT ![toIdx] = Insert(@, entityId, nextValues)]
        rem        == RemoveAt(arch1[fromIdx], RowToRemove(meta))
        arch2      == [arch1 EXCEPT ![fromIdx] = rem.table]
    IN  IF rem.threw
        THEN [arch |-> arch1, md |-> md, err |-> "RangeError"]
        ELSE IF rem.moved # <<>> /\ rem.moved[1] \notin DOMAIN md
        THEN [arch |-> arch2, md |-> md, err |-> "LookupError"]
        ELSE LET md1 == IF rem.moved # <<>>
                        THEN [md EXCEPT ![rem.moved[1]].row =
                                      MovedRow(meta, arch1[fromIdx].length - 1)]
                        ELSE md
             IN [arch |-> arch2,
                 md   |-> [md1 EXCEPT ![entityId] =
                              MigratedMeta(md1[entityId], nextMask, toIdx, nextRow)],
                 err  |-> "none"]


\* What the caller last wrote to a component: nothing (created without a
\* value), a value, or an addComponent that omitted the value.
Never == [tag |-> "never", v |-> 0]
Wrote(v) == [tag |-> "value", v |-> v]
Omitted == [tag |-> "omitted", v |-> 0]

\* addComponent that returns early without writing when the bit is present.
UpsertSkipped(t, row, componentBit, value) == t

\* addComponent on a component the entity has: the value is written in place.
Upsert(t, row, componentBit, value) == WriteComponent(t, row, componentBit, value)

----------------------------------------------------------------------------
(* Inputs                                                                  *)

\* Component values passed by callers: 16777217 is a uint32 but not a float32
\* (it is stored as 16777216). Stored values also come from the defaults (0
\* and 5) and from the 0 of an omitted addComponent value.
Values == {16777217}

\* Every mask over the declared bits.
AllMasks == {m \in 0..(2 * Layouts[Len(Layouts)].bit - 1) : TRUE}

\* Entity ids passed by callers: MaxEntities + 1 is never created.
Ids == 1..(MaxEntities + 1)

\* The optional `values` argument of createEntity.
ValueRecords == UNION {[S -> Values] : S \in SUBSET LayoutBits}

\* The optional `value` argument of addComponent: <<>> when omitted.
ValueArgs == {<<>>} \cup {<<v>> : v \in Values}

----------------------------------------------------------------------------
(* World operations, one action per call.                                  *)

InitWorld ==
    /\ nextEntityId = 1
    /\ archetypes = <<>>
    /\ metadata = [i \in {} |-> 0]
    /\ ret = "none"
    /\ ref = [i \in {} |-> 0]

CreateEntity(mask, values) ==
    /\ nextEntityId <= MaxEntities
    /\ UNCHANGED outsideWorld
    /\ LET entityId == nextEntityId
           got      == GetOrCreateArchetype(archetypes, mask)
           row      == got.arch[got.idx].length
       IN /\ nextEntityId' = nextEntityId + 1
          /\ archetypes' = [got.arch EXCEPT ![got.idx] = Insert(@, entityId, values)]
          /\ metadata' = [i \in DOMAIN metadata \cup {entityId} |->
                            IF i = entityId
                            THEN [mask |-> mask, table |-> got.idx, row |-> row, active |-> TRUE]
                            ELSE metadata[i]]
          /\ ret' = "none"
          /\ ref' = [i \in DOMAIN ref \cup {entityId} |->
                       IF i = entityId
                       THEN [b \in {x \in LayoutBits : BitAnd(mask, x) # 0} |->
                               IF b \in DOMAIN values THEN Wrote(values[b]) ELSE Never]
                       ELSE ref[i]]

\* mustGetMeta, readComponent or writeComponent threw: the call ends there.
Throws ==
    /\ ret' = "LookupError"
    /\ UNCHANGED <<nextEntityId, archetypes, metadata, ref>>

\* addComponent(entityId, componentBit, value = 0)
AddComponent(entityId, componentBit, valueArg) ==
    UNCHANGED outsideWorld /\
    LET value == IF valueArg = <<>> THEN 0 ELSE valueArg[1] IN
    IF entityId \notin DOMAIN metadata THEN Throws
    ELSE LET meta == metadata[entityId] IN
         IF BitAnd(meta.mask, componentBit) # 0
         THEN /\ archetypes' = [archetypes EXCEPT ![meta.table] =
                                   Upsert(@, meta.row, componentBit, value)]
              /\ ret' = "none"
              /\ ref' = [ref EXCEPT ![entityId][componentBit] =
                            IF valueArg = <<>> THEN Omitted ELSE Wrote(value)]
              /\ UNCHANGED <<nextEntityId, metadata>>
         ELSE LET m == MigrateEntity(archetypes, metadata, entityId,
                                     BitOr(meta.mask, componentBit),
                                     [b \in {componentBit} |-> value])
              IN /\ archetypes' = m.arch
                 /\ metadata' = m.md
                 /\ ret' = m.err
                 /\ ref' = [ref EXCEPT ![entityId] =
                               [b \in DOMAIN @ \cup {componentBit} |->
                                   IF b = componentBit
                                   THEN (IF valueArg = <<>> THEN Omitted ELSE Wrote(value))
                                   ELSE @[b]]]
                 /\ UNCHANGED nextEntityId

\* removeComponent(entityId, componentBit)
RemoveComponent(entityId, componentBit) ==
    UNCHANGED outsideWorld /\
    IF entityId \notin DOMAIN metadata THEN Throws
    ELSE LET meta == metadata[entityId] IN
         IF BitAnd(meta.mask, componentBit) = 0
         THEN /\ ret' = "none"
              /\ UNCHANGED <<nextEntityId, archetypes, metadata, ref>>
         ELSE LET m == MigrateEntity(archetypes, metadata, entityId,
                                     BitClear(meta.mask, componentBit),
                                     [b \in {} |-> 0])
              IN /\ archetypes' = m.arch
                 /\ metadata' = m.md
                 /\ ret' = m.err
                 /\ ref' = [ref EXCEPT ![entityId] =
                               [b \in DOMAIN @ \ {componentBit} |-> @[b]]]
                 /\ UNCHANGED nextEntityId

\* setComponent that adds the component when the entity lacks it.
SetAbsentUpserts(entityId, componentBit, value) ==
    AddComponent(entityId, componentBit, <<value>>)

\* writeComponent on a table without the column: it throws.
SetAbsent(entityId, componentBit, value) == Throws

\* setComponent(entityId, componentBit, value)
SetComponent(entityId, componentBit, value) ==
    UNCHANGED outsideWorld /\
    IF entityId \notin DOMAIN metadata THEN Throws
    ELSE LET meta == metadata[entityId] IN
         IF ~HasComponent(archetypes[meta.table], componentBit)
         THEN SetAbsent(entityId, componentBit, value)
         ELSE /\ archetypes' = [archetypes EXCEPT ![meta.table] =
                                   WriteComponent(@, meta.row, componentBit, value)]
              /\ ret' = "none"
              /\ ref' = [ref EXCEPT ![entityId] =
                            [b \in DOMAIN @ |-> IF b = componentBit THEN Wrote(value) ELSE @[b]]]
              /\ UNCHANGED <<nextEntityId, metadata>>

\* The value getComponent returns, for a known entity that has the column.
ComponentOf(entityId, componentBit) ==
    ReadComponent(archetypes[metadata[entityId].table], metadata[entityId].row, componentBit)

\* getComponent(entityId, componentBit)
GetComponent(entityId, componentBit) ==
    UNCHANGED outsideWorld /\
    IF entityId \notin DOMAIN metadata THEN Throws
    ELSE IF ~HasComponent(archetypes[metadata[entityId].table], componentBit) THEN Throws
    ELSE /\ ret' = "none"
         /\ UNCHANGED <<nextEntityId, archetypes, metadata, ref>>

\* isActive(entityId): this.metadata.get(entityId)?.active ?? false
IsActive(entityId) == entityId \in DOMAIN metadata /\ metadata[entityId].active

\* deactivate(entityId)
Deactivate(entityId) ==
    UNCHANGED outsideWorld /\
    IF entityId \notin DOMAIN metadata THEN Throws
    ELSE /\ metadata' = [metadata EXCEPT ![entityId].active = FALSE]
         /\ ret' = "none"
         /\ UNCHANGED <<nextEntityId, archetypes, ref>>

\* Query.entities(): the ids yielded by one full iteration, in order.
RECURSIVE RowsFrom(_, _)
RowsFrom(t, row) ==
    IF row >= t.length THEN <<>>
    ELSE (IF IsActive(EntityAt(t, row)) THEN <<EntityAt(t, row)>> ELSE <<>>)
         \o RowsFrom(t, row + 1)

RECURSIVE TablesFrom(_, _)
TablesFrom(i, requiredMask) ==
    IF i > Len(archetypes) THEN <<>>
    ELSE (IF CompatibleWith(archetypes[i], requiredMask) THEN RowsFrom(archetypes[i], 0) ELSE <<>>)
         \o TablesFrom(i + 1, requiredMask)

QueryEntities(requiredMask) == TablesFrom(1, requiredMask)

NextWorld ==
    \/ \E mask \in AllMasks, values \in ValueRecords : CreateEntity(mask, values)
    \/ \E id \in Ids, bit \in LayoutBits, arg \in ValueArgs : AddComponent(id, bit, arg)
    \/ \E id \in Ids, bit \in LayoutBits : RemoveComponent(id, bit)
    \/ \E id \in Ids, bit \in LayoutBits, v \in Values : SetComponent(id, bit, v)
    \/ \E id \in Ids, bit \in LayoutBits : GetComponent(id, bit)
    \/ \E id \in Ids : Deactivate(id)

----------------------------------------------------------------------------
(* LoopManager                                                             *)

\* Time is counted in ticks of 1/3000 s, so that 1 ms and 1/60 s are whole:
\* rawFrameDt = (nowMs - lastTimestampMs) / 1000 s = 3 ticks per ms.
TicksPerMs == 3

\* fixedStepSeconds: 1/60 s
FixedStep == 50

\* maxFrameDeltaSeconds: 0.25 s
MaxFrameDelta == 750

\* maxFixedStepsPerFrame
MaxFixedStepsPerFrame == 5

\* hooks.aiScheduler: the engine passes a BucketAIScheduler
HasAIScheduler == TRUE

\* new BucketAIScheduler(entities, 6): the number of buckets
BucketCount == 6

\* BucketAIScheduler.tick: the bucket a tick processes
BucketIndex(index) == index % BucketCount

\* The bucket indices of the last AI ticks once one more is made.
Ticked(log, bucket) ==
    IF Len(log) < BucketCount THEN Append(log, bucket)
    ELSE Append(Tail(log), bucket)

\* The timestamps (ms) the frame callbacks are called with, in any order:
\* gaps of 17, 23 and 40 ms, gaps of 5 s and more, equal and decreasing ones.
Stamps == {0, 17, 40, 5040}

Min(a, b) == IF a <= b THEN a ELSE b

\* requestAnimationFrame returns a handle no pending callback and no field
\* holds: the smallest such number stands for it.
FreshHandle(held) == CHOOSE n \in 1..(Cardinality(held) + 1) : n \notin held

NoCallback ==
    [state |-> "none", gapMs |-> 0, purged |-> FALSE, stopped |-> FALSE, planned |-> 0]

InitLoop ==
    /\ accumulator = 0
    /\ running = FALSE
    /\ frameIndex = 0
    /\ rafId = 0
    /\ lastTimestampMs = <<>>
    /\ pending = {}
    /\ pc = "idle"
    /\ fixedSteps = 0
    /\ frameDt = 0
    /\ alphaTicks = 0
    /\ hookLog = <<>>
    /\ cb = NoCallback
    /\ sinceStart = 0
    /\ lastBuckets = <<>>

\* start(), from outside a callback or from inside a hook
Start ==
    /\ UNCHANGED outsideLoop
    /\ IF running
       THEN UNCHANGED loopVars
       ELSE /\ Cardinality(pending) < MaxPending
            /\ running' = TRUE
            /\ lastTimestampMs' = <<>>
            /\ rafId' = FreshHandle(pending \cup {rafId})
            /\ pending' = pending \cup {rafId'}
            /\ sinceStart' = 0
            /\ UNCHANGED <<accumulator, frameIndex, pc, fixedSteps, frameDt, alphaTicks,
                           hookLog, cb, lastBuckets>>

\* stop(), from outside a callback or from inside a hook
Stop ==
    /\ running' = FALSE
    /\ UNCHANGED outsideLoop
    /\ pending' = IF rafId # 0 THEN pending \ {rafId} ELSE pending
    /\ rafId' = 0
    /\ lastTimestampMs' = <<>>
    /\ accumulator' = 0
    /\ cb' = IF pc # "idle" THEN [cb EXCEPT !.stopped = TRUE] ELSE cb
    /\ UNCHANGED <<frameIndex, pc, fixedSteps, frameDt, alphaTicks, hookLog,
                   sinceStart, lastBuckets>>

\* The accumulator without its purge.
PurgedNever(acc, steps) == acc

\* The accumulator after the purge that follows the loop of fixed steps.
Purged(acc, steps) ==
    IF steps = MaxFixedStepsPerFrame /\ acc >= FixedStep THEN 0 ELSE acc

\* The condition of the loop of fixed steps.
LoopContinues(acc, steps) == acc >= FixedStep /\ steps < MaxFixedStepsPerFrame

\* The loop of fixed steps, with hooks that return: the accumulator and the
\* step count it ends with.
RECURSIVE FixedStepLoop(_, _)
FixedStepLoop(acc, steps) ==
    IF LoopContinues(acc, steps)
    THEN FixedStepLoop(acc - FixedStep, steps + 1)
    ELSE [accumulator |-> acc, fixedSteps |-> steps]

\* A callback that forgets to call lateUpdate.
ProceedSkipsLateUpdate(acc, steps, log, about) ==
    IF LoopContinues(acc, steps)
    THEN /\ accumulator' = acc
         /\ pc' = "fixedUpdate"
         /\ hookLog' = Append(log, "FixedUpdate")
         /\ alphaTicks' = 0
         /\ cb' = about
    ELSE /\ accumulator' = Purged(acc, steps)
         /\ pc' = "render"
         /\ hookLog' = Append(log, "Render")
         /\ alphaTicks' = IF FixedStep > 0 THEN Purged(acc, steps) ELSE 0
         /\ cb' = [about EXCEPT
                     !.purged = (steps = MaxFixedStepsPerFrame /\ acc >= FixedStep)]

\* The callback goes on from the loop condition, with accumulator `acc` and
\* `steps` fixed steps done: into the next fixedUpdate, or out of the loop,
\* through the purge and alpha, into lateUpdate. `log` and `about` are the
\* callback's record so far.
Proceed(acc, steps, log, about) ==
    IF LoopContinues(acc, steps)
    THEN /\ accumulator' = acc
         /\ pc' = "fixedUpdate"
         /\ hookLog' = Append(log, "FixedUpdate")
         /\ alphaTicks' = 0
         /\ cb' = about
    ELSE /\ accumulator' = Purged(acc, steps)
         /\ pc' = "lateUpdate"
         /\ hookLog' = Append(log, "LateUpdate")
         /\ alphaTicks' = IF FixedStep > 0 THEN Purged(acc, steps) ELSE 0
         /\ cb' = [about EXCEPT
                     !.purged = (steps = MaxFixedStepsPerFrame /\ acc >= FixedStep)]

\* A first callback that takes the time origin for its baseline and
\* accumulates the time since then.
RecordBaselineFromOrigin(id, nowMs) ==
    /\ Cardinality(pending \ {id}) < MaxPending
    /\ lastTimestampMs' = <<nowMs>>
    /\ rafId' = FreshHandle((pending \ {id}) \cup {rafId})
    /\ pending' = (pending \ {id}) \cup {rafId'}
    /\ cb' = [NoCallback EXCEPT !.state = "baseline"]
    /\ hookLog' = <<>>
    /\ sinceStart' = Min(sinceStart + 1, 2)
    /\ accumulator' = accumulator + Min(nowMs * TicksPerMs, MaxFrameDelta)
    /\ UNCHANGED <<running, frameIndex, pc, fixedSteps, frameDt, alphaTicks>>

\* tick(nowMs) with no last timestamp: the timestamp is recorded and the
\* next callback requested, nothing is simulated
RecordBaseline(id, nowMs) ==
    /\ Cardinality(pending \ {id}) < MaxPending
    /\ lastTimestampMs' = <<nowMs>>
    /\ rafId' = FreshHandle((pending \ {id}) \cup {rafId})
    /\ pending' = (pending \ {id}) \cup {rafId'}
    /\ cb' = [NoCallback EXCEPT !.state = "baseline"]
    /\ hookLog' = <<>>
    /\ sinceStart' = Min(sinceStart + 1, 2)
    /\ UNCHANGED <<accumulator, running, frameIndex, pc, fixedSteps, frameDt, alphaTicks>>

\* tick(nowMs): the frame callback `id` runs, up to its first hook
Tick(id, nowMs) ==
    /\ pc = "idle"
    /\ UNCHANGED outsideLoop
    /\ id \in pending
    /\ UNCHANGED lastBuckets
    /\ IF ~running
       THEN /\ pending' = pending \ {id}
            /\ cb' = [NoCallback EXCEPT !.state = "ignored"]
            /\ hookLog' = <<>>
            /\ UNCHANGED <<accumulator, running, frameIndex, rafId, lastTimestampMs,
                           pc, fixedSteps, frameDt, alphaTicks, sinceStart>>
       ELSE IF lastTimestampMs = <<>>
       THEN RecordBaseline(id, nowMs)
       ELSE /\ frameIndex < MaxFrames
            /\ LET rawFrameDt == (nowMs - lastTimestampMs[1]) * TicksPerMs
                    dt         == Min(Max(rawFrameDt, 0), MaxFrameDelta)
               IN /\ lastTimestampMs' = <<nowMs>>
                  /\ frameDt' = dt
                  /\ fixedSteps' = 0
                  /\ pending' = pending \ {id}
                  /\ sinceStart' = Min(sinceStart + 1, 2)
                  /\ Proceed(accumulator + dt, 0, <<>>,
                             [state |-> "simulating",
                              gapMs |-> nowMs - lastTimestampMs[1],
                              purged |-> FALSE, stopped |-> FALSE,
                              planned |-> FixedStepLoop(accumulator + dt, 0).fixedSteps])
                  /\ UNCHANGED <<running, frameIndex, rafId>>

\* hooks.fixedUpdate(fixedCtx) returns: the AI scheduler is ticked next
FixedUpdateReturns ==
    /\ pc = "fixedUpdate"
    /\ UNCHANGED outsideLoop
    /\ IF HasAIScheduler
       THEN /\ pc' = "aiTick"
            /\ hookLog' = Append(hookLog, "AITick")
            /\ lastBuckets' = Ticked(lastBuckets, BucketIndex(frameIndex))
            /\ UNCHANGED <<accumulator, fixedSteps, alphaTicks, cb>>
       ELSE /\ fixedSteps' = fixedSteps + 1
            /\ Proceed(accumulator - FixedStep, fixedSteps + 1, hookLog, cb)
            /\ UNCHANGED lastBuckets
    /\ UNCHANGED <<running, frameIndex, rafId, lastTimestampMs, pending, frameDt, sinceStart>>

\* hooks.aiScheduler.tick(frameIndex, fixedStep) returns: the accumulator is
\* decremented, the step counted, and the loop condition decides what follows
AITickReturns ==
    /\ pc = "aiTick"
    /\ UNCHANGED outsideLoop
    /\ fixedSteps' = fixedSteps + 1
    /\ Proceed(accumulator - FixedStep, fixedSteps + 1, hookLog, cb)
    /\ UNCHANGED <<running, frameIndex, rafId, lastTimestampMs, pending, frameDt,
                   sinceStart, lastBuckets>>

\* hooks.lateUpdate(frameCtx) returns: render is called
LateUpdateReturns ==
    /\ pc = "lateUpdate"
    /\ UNCHANGED outsideLoop
    /\ pc' = "render"
    /\ hookLog' = Append(hookLog, "Render")
    /\ UNCHANGED <<accumulator, running, frameIndex, rafId, lastTimestampMs, pending,
                   fixedSteps, frameDt, alphaTicks, cb, sinceStart, lastBuckets>>

\* hooks.render(frameCtx) returns: the frame index advances and the next
\* callback is requested
RenderReturns ==
    /\ pc = "render"
    /\ UNCHANGED outsideLoop
    /\ Cardinality(pending) < MaxPending
    /\ frameIndex' = frameIndex + 1
    /\ rafId' = FreshHandle(pending \cup {rafId})
    /\ pending' = pending \cup {rafId'}
    /\ pc' = "idle"
    /\ cb' = [cb EXCEPT !.state = "done"]
    /\ UNCHANGED <<accumulator, running, lastTimestampMs, fixedSteps, frameDt,
                   alphaTicks, hookLog, sinceStart, lastBuckets>>

\* A tick that catches the error of a hook and requests the next callback.
HookThrowsCaught ==
    /\ pc # "idle"
    /\ UNCHANGED outsideLoop
    /\ Cardinality(pending) < MaxPending
    /\ pc' = "idle"
    /\ cb' = [cb EXCEPT !.state = "thrown"]
    /\ rafId' = FreshHandle(pending \cup {rafId})
    /\ pending' = pending \cup {rafId'}
    /\ UNCHANGED <<accumulator, running, frameIndex, lastTimestampMs,
                   fixedSteps, frameDt, alphaTicks, hookLog, sinceStart, lastBuckets>>

\* The hook the callback is inside of throws: the error leaves tick
HookThrows ==
    /\ pc # "idle"
    /\ UNCHANGED outsideLoop
    /\ pc' = "idle"
    /\ cb' = [cb EXCEPT !.state = "thrown"]
    /\ UNCHANGED <<accumulator, running, frameIndex, rafId, lastTimestampMs, pending,
                   fixedSteps, frameDt, alphaTicks, hookLog, sinceStart, lastBuckets>>

NextLoop ==
    \/ Start
    \/ Stop
    \/ \E id \in pending, nowMs \in Stamps : Tick(id, nowMs)
    \/ FixedUpdateReturns
    \/ AITickReturns
    \/ LateUpdateReturns
    \/ RenderReturns
    \/ HookThrows

----------------------------------------------------------------------------
(* Two runs of the scheduler, callback by callback                         *)

\* The timestamps (ms) the callbacks of a run are called with, increasing:
\* how long the render phase takes decides which of them a run sees.
RunStamps == {0, 17, 34, 51}

RunNames == {"A", "B"}

\* `n` times the bucket of frame `index`, after `log`.
RECURSIVE TickedTimes(_, _, _)
TickedTimes(log, index, n) ==
    IF n = 0 THEN log ELSE TickedTimes(Append(log, BucketIndex(index)), index, n - 1)

\* A run after start(): nothing simulated, no timestamp.
StartedRun ==
    [lastTimestampMs |-> <<>>, firstMs |-> 0, accumulator |-> 0, frameIndex |-> 0,
     callbacks |-> 0, fixedUpdates |-> 0, buckets |-> <<>>]

\* tick(nowMs) as a whole, with hooks that return and call neither start()
\* nor stop(): the fields of the run afterwards, the number of fixedUpdate
\* calls and the buckets ticked so far.
TickOf(r, nowMs) ==
    IF r.lastTimestampMs = <<>>
    THEN [r EXCEPT !.lastTimestampMs = <<nowMs>>, !.firstMs = nowMs,
                   !.callbacks = @ + 1]
    ELSE LET rawFrameDt == (nowMs - r.lastTimestampMs[1]) * TicksPerMs
             dt         == Min(Max(rawFrameDt, 0), MaxFrameDelta)
             looped     == FixedStepLoop(r.accumulator + dt, 0)
         IN [r EXCEPT
               !.lastTimestampMs = <<nowMs>>,
               !.accumulator = Purged(looped.accumulator, looped.fixedSteps),
               !.frameIndex = @ + 1,
               !.callbacks = @ + 1,
               !.fixedUpdates = @ + looped.fixedSteps,
               !.buckets = IF HasAIScheduler
                           THEN TickedTimes(@, r.frameIndex, looped.fixedSteps)
                           ELSE @]

\* The wall time a run has covered since its first callback.
ElapsedMs(r) == IF r.lastTimestampMs = <<>> THEN 0 ELSE r.lastTimestampMs[1] - r.firstMs

InitRuns == runs = [n \in RunNames |-> StartedRun]

\* The next frame callback of run `n` fires at `nowMs`.
RunCallback(n, nowMs) ==
    /\ UNCHANGED outsideRuns
    /\ runs[n].lastTimestampMs # <<>> => nowMs > runs[n].lastTimestampMs[1]
    /\ runs' = [runs EXCEPT ![n] = TickOf(@, nowMs)]

NextRuns == \E n \in RunNames, nowMs \in RunStamps : RunCallback(n, nowMs)

----------------------------------------------------------------------------
(* WorkerBridge                                                            *)

WORKER_PROTOCOL_VERSION == 1

HEADER_SIZE == 16

TRANSFORM_FLOATS == 8192

META_UINTS == 2048

\* Int32Array, Float32Array and Uint32Array: BYTES_PER_ELEMENT
BytesPerElement == 4

\* The byte length of the block createChannel allocates.
SharedBufferByteLength ==
    HEADER_SIZE * BytesPerElement + TRANSFORM_FLOATS * BytesPerElement
        + META_UINTS * BytesPerElement

\* The domains and the Worker objects the callers pass.
Domains == {"physics", "pathfinding"}

Workers == {"w1", "w2"}

\* The frame indices step is called with, the sequence numbers of sync.
FrameIndices == {1, 2}

SyncSequences == {7}

\* The position of the channel of `domain` in the table, 0 when absent.
ChannelIndex(chs, domain) ==
    IF \E i \in DOMAIN chs : chs[i].domain = domain
    THEN CHOOSE i \in DOMAIN chs : chs[i].domain = domain
    ELSE 0

\* this.channels.set(domain, channel): a present key keeps its position
SetChannel(chs, channel) ==
    IF ChannelIndex(chs, channel.domain) # 0
    THEN [chs EXCEPT ![ChannelIndex(chs, channel.domain)] = channel]
    ELSE Append(chs, channel)

\* send(channel, type, payload): the message is handed to the worker's
\* postMessage; `dead` are the workers terminated by then, which receive
\* nothing any more. (The message's timestamp, a clock reading, is left out.)
Send(evts, dead, channel, type, payload) ==
    Append(evts, [kind    |-> "post",
                  worker  |-> channel.worker,
                  live    |-> channel.worker \notin dead,
                  message |-> [version |-> WORKER_PROTOCOL_VERSION,
                               type    |-> type,
                               domain  |-> channel.domain,
                               payload |-> payload]])

\* A store that lands in slot 0 of every block, as if the channels shared
\* one buffer.
AtomicsStoreShared(evts, blks, channel, value) ==
    [events |-> Append(evts, [kind |-> "store", block |-> channel.block, value |-> value]),
     blocks |-> [b \in DOMAIN blks |-> value]]

\* Atomics.store(channel.views.header, 0, value), on Int32 values: the
\* events and the blocks afterwards
AtomicsStore(evts, blks, channel, value) ==
    [events |-> Append(evts, [kind |-> "store", block |-> channel.block, value |-> value]),
     blocks |-> [blks EXCEPT ![channel.block] = value]]

\* Atomics.notify(channel.views.header, 0, 1)
AtomicsNotify(evts, channel) ==
    Append(evts, [kind |-> "notify", block |-> channel.block, count |-> 1])

\* channel.worker.terminate()
Terminate(evts, channel) ==
    Append(evts, [kind |-> "terminate", worker |-> channel.worker])

InitBridge ==
    /\ channels = <<>>
    /\ blocks = <<>>
    /\ terminated = {}
    /\ events = <<>>
    /\ bridgeCalls = 0

\* createChannel(domain, worker)
CreateChannel(domain, worker) ==
    /\ UNCHANGED outsideBridge
    /\ bridgeCalls < MaxBridgeCalls
    /\ bridgeCalls' = bridgeCalls + 1
    /\ LET sharedBuffer == Len(blocks) + 1
           channel == [domain |-> domain, worker |-> worker, block |-> sharedBuffer]
       IN /\ blocks' = Append(blocks, 0)
          /\ channels' = SetChannel(channels, channel)
          /\ events' = Send(events, terminated, channel, "INIT",
                            [workerId |-> domain,   \* and a clock reading, left out
                             sharedBuffer |-> sharedBuffer,
                             sharedBufferByteLength |-> SharedBufferByteLength])
    /\ UNCHANGED terminated

\* A step loop that publishes the frame index before it posts the message.
RECURSIVE StepFromStoreFirst(_, _, _, _, _, _)
StepFromStoreFirst(evts, blks, chs, i, frame, dt) ==
    IF i > Len(chs) THEN [events |-> evts, blocks |-> blks]
    ELSE LET stored == AtomicsStore(evts, blks, chs[i], frame)
             posted == Send(AtomicsNotify(stored.events, chs[i]), terminated, chs[i],
                            "STEP", [frameIndex |-> frame, dt |-> dt])
         IN StepFromStoreFirst(posted, stored.blocks, chs, i + 1, frame, dt)

\* The loop of step over the channels from position i on: the events and
\* the blocks afterwards.
RECURSIVE StepFrom(_, _, _, _, _, _)
StepFrom(evts, blks, chs, i, frame, dt) ==
    IF i > Len(chs) THEN [events |-> evts, blocks |-> blks]
    ELSE LET posted == Send(evts, terminated, chs[i], "STEP",
                            [frameIndex |-> frame, dt |-> dt])
             stored == AtomicsStore(posted, blks, chs[i], frame)
         IN StepFrom(AtomicsNotify(stored.events, chs[i]), stored.blocks,
                     chs, i + 1, frame, dt)

\* step(frameIndex, dt)
Step(frame, dt) ==
    /\ UNCHANGED outsideBridge
    /\ bridgeCalls < MaxBridgeCalls
    /\ bridgeCalls' = bridgeCalls + 1
    /\ LET done == StepFrom(events, blocks, channels, 1, frame, dt)
       IN /\ events' = done.events
          /\ blocks' = done.blocks
    /\ UNCHANGED <<channels, terminated>>

\* The loop of sync over the channels from position i on.
RECURSIVE SyncFrom(_, _, _, _)
SyncFrom(evts, chs, i, sequence) ==
    IF i > Len(chs) THEN evts
    ELSE SyncFrom(Send(evts, terminated, chs[i], "SYNC", [sequence |-> sequence]),
                  chs, i + 1, sequence)

\* sync(sequence)
Sync(sequence) ==
    /\ UNCHANGED outsideBridge
    /\ bridgeCalls < MaxBridgeCalls
    /\ bridgeCalls' = bridgeCalls + 1
    /\ events' = SyncFrom(events, channels, 1, sequence)
    /\ UNCHANGED <<channels, blocks, terminated>>

\* A shutdown loop that terminates each worker before it posts to it.
RECURSIVE ShutdownFromTerminateFirst(_, _, _, _, _)
ShutdownFromTerminateFirst(evts, dead, chs, i, reason) ==
    IF i > Len(chs) THEN [events |-> evts, terminated |-> dead]
    ELSE ShutdownFromTerminateFirst(
            Send(Terminate(evts, chs[i]), dead \cup {chs[i].worker}, chs[i],
                 "SHUTDOWN", [reason |-> reason]),
            dead \cup {chs[i].worker},
            chs, i + 1, reason)

\* The loop of shutdown over the channels from position i on: what was done
\* and which workers are terminated.
RECURSIVE ShutdownFrom(_, _, _, _, _)
ShutdownFrom(evts, dead, chs, i, reason) ==
    IF i > Len(chs) THEN [events |-> evts, terminated |-> dead]
    ELSE ShutdownFrom(
            Terminate(Send(evts, dead, chs[i], "SHUTDOWN", [reason |-> reason]), chs[i]),
            dead \cup {chs[i].worker},
            chs, i + 1, reason)

\* shutdown(reason = 'Engine dispose')
Shutdown ==
    /\ UNCHANGED outsideBridge
    /\ bridgeCalls < MaxBridgeCalls
    /\ bridgeCalls' = bridgeCalls + 1
    /\ LET done == ShutdownFrom(events, terminated, channels, 1, "Engine dispose")
       IN /\ events' = done.events
          /\ terminated' = done.terminated
    /\ channels' = <<>>
    /\ UNCHANGED blocks

NextBridge ==
    \/ \E domain \in Domains, worker \in Workers : CreateChannel(domain, worker)
    \/ \E frame \in FrameIndices : Step(frame, FixedStep)
    \/ \E sequence \in SyncSequences : Sync(sequence)
    \/ Shutdown

----------------------------------------------------------------------------
(* ChunkStreamingManager                                                   *)

\* new ChunkStreamingManager({ chunkSizeMeters: 100 })
ChunkSizeMeters == 100

\* enterRadiusChunks: 4 by default
EnterRadiusChunks == 4

\* exitRadiusChunks: enterRadiusChunks + 2 by default
ExitRadiusChunks == EnterRadiusChunks + 2

\* The focus positions (meters) updateFocus is called with: they fall in
\* the chunks -1, 2, 5 along x and 0, 2 along y.
PositionsX == {-50, 250, 550}

PositionsY == {50, 250}

Abs(a) == IF a < 0 THEN -a ELSE a

\* worldToChunk(position): Math.floor of the quotient
WorldToChunk(position) ==
    [cx |-> position.x \div ChunkSizeMeters, cy |-> position.y \div ChunkSizeMeters]

\* keyOf(cx, cy): the string `cx:cy`, one per pair of integers
KeyOf(cx, cy) == <<cx, cy>>

\* Math.max(Math.abs(x - focus.cx), Math.abs(y - focus.cy))
ChunkDistance(cx, cy, focus) == Max(Abs(cx - focus.cx), Abs(cy - focus.cy))

\* computePriority(distance)
ComputePriority(distance) ==
    IF distance <= 1 THEN "High"
    ELSE IF distance <= 3 THEN "Medium"
    ELSE "Low"

\* The keys the loading loops of updateFocus visit.
EnterKeys(focus) ==
    {KeyOf(x, y) : x \in (focus.cx - EnterRadiusChunks)..(focus.cx + EnterRadiusChunks),
                   y \in (focus.cy - EnterRadiusChunks)..(focus.cy + EnterRadiusChunks)}

\* The chunk the loading loops leave under a key they visit: a new chunk,
\* or the existing one with distance, priority and loaded rewritten.
LoadedChunk(key, focus) ==
    LET distance == ChunkDistance(key[1], key[2], focus)
    IN [cx |-> key[1], cy |-> key[2], key |-> key, distance |-> distance,
        priority |-> ComputePriority(distance), loaded |-> TRUE]

\* An unloading loop that drops a chunk as soon as it leaves the enter
\* radius.
UnloadsWithoutHysteresis(chunk, focus) ==
    ChunkDistance(chunk.cx, chunk.cy, focus) > EnterRadiusChunks

\* The unloading loop deletes the chunk: it lies beyond the exit radius.
Unloads(chunk, focus) ==
    ChunkDistance(chunk.cx, chunk.cy, focus) > ExitRadiusChunks

InitChunks ==
    /\ activeChunks = <<>>
    /\ lastFocus = <<>>

\* updateFocus(position)
UpdateFocus(position) ==
    /\ UNCHANGED outsideChunks
    /\ LET focus  == WorldToChunk(position)
           loaded == [key \in DOMAIN activeChunks \cup EnterKeys(focus) |->
                        IF key \in EnterKeys(focus) THEN LoadedChunk(key, focus)
                        ELSE activeChunks[key]]
       IN /\ activeChunks' =
                [key \in {k \in DOMAIN loaded : ~Unloads(loaded[k], focus)} |-> loaded[key]]
          /\ lastFocus' = <<focus>>

NextChunks == \E x \in PositionsX, y \in PositionsY : UpdateFocus([x |-> x, y |-> y])

----------------------------------------------------------------------------
(* ObjectPool and its PoolDebugTracker                                     *)

\* The initial capacities the pool is constructed with (0 by default).
InitialCapacities == {0, 2}

\* An object the pool never created: it stands after every object the pool
\* can create, and indexByObject has no entry for it.
Foreign == MaxPoolObjects

\* PoolDebugTracker.onAcquire(capacity)
OnAcquire(d, capacity) ==
    [d EXCEPT !.capacity = capacity,
              !.inUse = d.inUse + 1,
              !.highWaterMark = Max(d.highWaterMark, d.inUse + 1)]

\* PoolDebugTracker.onRelease(capacity)
OnRelease(d, capacity) ==
    [d EXCEPT !.capacity = capacity, !.inUse = Max(0, d.inUse - 1)]

\* PoolDebugTracker.markLeakSuspect(count = 1)
MarkLeakSuspect(d) == [d EXCEPT !.leakSuspectCount = d.leakSuspectCount + 1]

\* this.indexByObject.get(item): <<index>>, or <<>> for undefined
IndexByObject(item) == IF item < objects THEN <<item>> ELSE <<>>

\* The pool's fields as their initialisers leave them, before the
\* constructor's loop.
InitPool ==
    /\ objects = 0
    /\ freeIndices = <<>>
    /\ inUse = {}
    /\ debug = [capacity |-> 0, inUse |-> 0, highWaterMark |-> 0,
                leakSuspectCount |-> 0]
    /\ acquired = <<>>
    /\ handedOut = [i \in 0..(MaxPoolObjects - 1) |-> 0]

\* The loop of the constructor: initialCapacity objects are created, all
\* free. It runs before any other call on the pool.
Construct(initialCapacity) ==
    /\ UNCHANGED outsidePool
    /\ objects = 0 /\ debug.highWaterMark = 0 /\ debug.leakSuspectCount = 0
    /\ initialCapacity > 0
    /\ objects' = initialCapacity
    /\ freeIndices' = [i \in 1..initialCapacity |-> i - 1]
    /\ UNCHANGED <<inUse, debug, acquired, handedOut>>

\* acquire()
Acquire ==
    /\ UNCHANGED outsidePool
    /\ freeIndices = <<>> => objects < MaxPoolObjects
    /\ LET index == IF freeIndices # <<>> THEN freeIndices[Len(freeIndices)] ELSE objects
       IN /\ freeIndices' = IF freeIndices # <<>>
                            THEN SubSeq(freeIndices, 1, Len(freeIndices) - 1)
                            ELSE freeIndices
          /\ objects' = IF freeIndices # <<>> THEN objects ELSE objects + 1
          /\ inUse' = inUse \cup {index}
          /\ debug' = OnAcquire(debug, objects')
          /\ acquired' = <<index>>
          /\ handedOut' = [handedOut EXCEPT ![index] = @ + 1]

\* A release that never looks the index up in the in-use set.
NotInUseUnchecked(index) == FALSE

\* !this.inUse.has(index)
NotInUse(index) == index \notin inUse

\* The holders' side of release(item): a holder of the object gives it up.
GivenUp(item) ==
    IF item # Foreign /\ handedOut[item] > 0
    THEN [handedOut EXCEPT ![item] = @ - 1]
    ELSE handedOut

\* release(item)
Release(item) ==
    /\ UNCHANGED outsidePool
    /\ acquired' = <<>>
    /\ handedOut' = GivenUp(item)
    /\ IF IndexByObject(item) = <<>> \/ NotInUse(IndexByObject(item)[1])
       THEN /\ debug.leakSuspectCount < MaxLeakSuspects
            /\ debug' = MarkLeakSuspect(debug)
            /\ UNCHANGED <<objects, freeIndices, inUse>>
       ELSE LET index == IndexByObject(item)[1]
            IN /\ inUse' = inUse \ {index}
               /\ freeIndices' = Append(freeIndices, index)
               /\ debug' = OnRelease(debug, objects)
               /\ UNCHANGED objects

NextPool ==
    \/ \E initialCapacity \in InitialCapacities : Construct(initialCapacity)
    \/ Acquire
    \/ \E item \in (0..(objects - 1)) \cup {Foreign} : Release(item)

----------------------------------------------------------------------------
(* Specifications                                                          *)

Init == InitWorld /\ InitLoop /\ InitRuns /\ InitBridge /\ InitChunks /\ InitPool

\* The entity store alone.
SpecWorld == Init /\ [][NextWorld]_vars

\* The scheduler alone.
SpecLoop == Init /\ [][NextLoop]_vars

\* Two runs of the scheduler with the same configuration.
SpecRuns == Init /\ [][NextRuns]_vars

\* The worker bridge alone.
SpecBridge == Init /\ [][NextBridge]_vars

\* The chunk streaming manager alone.
SpecChunks == Init /\ [][NextChunks]_vars

\* The object pool alone.
SpecPool == Init /\ [][NextPool]_vars

Next == NextWorld \/ NextLoop \/ NextRuns \/ NextBridge \/ NextChunks \/ NextPool

Spec == Init /\ [][Next]_vars

----------------------------------------------------------------------------
(* Properties of the entity store.                                         *)

Created == 1..(nextEntityId - 1)

Range(q) == {q[i] : i \in DOMAIN q}

RECURSIVE MaskOfBits(_)
MaskOfBits(S) ==
    IF S = {} THEN 0
    ELSE LET b == CHOOSE x \in S : TRUE IN b + MaskOfBits(S \ {b})

\* The rows (table index, row) of the world that hold `id`.
RowsHolding(id) ==
    {<<i, r>> \in UNION {{i} \X (0..(archetypes[i].length - 1)) : i \in DOMAIN archetypes} :
        EntityAt(archetypes[i], r) = id}

\* C1: every entity id ever created has exactly one meta record; its table is
\* the one archetype whose mask is meta.mask, its row lies in [0, length) of
\* that table, and the table's entity column holds the id at that row.
C1_MetaConsistent ==
    /\ DOMAIN metadata = Created
    /\ \A id \in Created :
         LET meta == metadata[id] IN
         /\ meta.table \in DOMAIN archetypes
         /\ archetypes[meta.table].mask = meta.mask
         /\ \A j \in DOMAIN archetypes : archetypes[j].mask = meta.mask => j = meta.table
         /\ 0 <= meta.row
         /\ meta.row < archetypes[meta.table].length
         /\ EntityAt(archetypes[meta.table], meta.row) = id

\* Two entities share a table with the younger one in row 0 (a swap-remove
\* put it there, or the older one left and came back), the older one inactive.
C1_Witness ==
    /\ nextEntityId = 3
    /\ metadata[1].table = metadata[2].table
    /\ metadata[2].row = 0
    /\ metadata[1].row = 1
    /\ ~metadata[1].active

\* C2: an entity's mask is the mask its calls expressed (initial mask, plus
\* bits added, minus bits removed) and every bit of it reads back the last
\* value written to it when that value is representable in the column's
\* kind, or the layout default when it was never written.
C2_MaskAndValues ==
    \A id \in DOMAIN ref :
        /\ id \in DOMAIN metadata
        /\ metadata[id].mask = MaskOfBits(DOMAIN ref[id])
        /\ \A b \in DOMAIN ref[id] :
             /\ HasComponent(archetypes[metadata[id].table], b)
             /\ ref[id][b].tag = "never" => ComponentOf(id, b) = Fallback(b)
             /\ (ref[id][b].tag = "value"
                   /\ StoreAs(LayoutOf(b).kind, ref[id][b].v) = ref[id][b].v)
                => ComponentOf(id, b) = ref[id][b].v

\* Entity 1, created without components, was given both bits by migrations
\* and holds a written value in bit 2; it shares the table of mask 3 with
\* entity 2, which still holds the default of bit 2; every archetype exists.
C2_Witness ==
    /\ nextEntityId = 3
    /\ Len(archetypes) = 4
    /\ archetypes[1].mask = 0
    /\ metadata[1].mask = 3
    /\ metadata[2].mask = 3
    /\ ref[1][2] = Wrote(16777217)
    /\ ref[2][2] = Never
    /\ ComponentOf(1, 2) = 16777217
    /\ ComponentOf(2, 2) = 5

\* Every created id sits in exactly one row of exactly one table.
NoIdLostOrDuplicated ==
    \A id \in Created : Cardinality(RowsHolding(id)) = 1

\* A migration that removes row r # L-1 of its source table puts the entity
\* that was at row L-1 at row r, and shortens the table by one.
SwapRemoveStep ==
    \A id \in DOMAIN metadata :
        LET meta == metadata[id]
            L    == archetypes[meta.table].length
        IN (id \in DOMAIN metadata' /\ metadata'[id].table # meta.table)
           => /\ archetypes'[meta.table].length = L - 1
              /\ (meta.row # L - 1 /\ L > 1)
                 => EntityAt(archetypes'[meta.table], meta.row)
                      = EntityAt(archetypes[meta.table], L - 1)

\* C3: no entity id is duplicated or lost (each created id occupies exactly
\* one row in [0, length) of exactly one table), and removing row r # L-1
\* from a table of length L > 1 relocates the entity of row L-1 to row r.
C3_SwapRemove == []NoIdLostOrDuplicated /\ [][SwapRemoveStep]_ecsVars

\* Entity 1 has left the table it shared with entity 2, from row 0: entity 2
\* was relocated from row 1 to row 0.
C3_Witness ==
    /\ nextEntityId = 3
    /\ metadata[1].table # metadata[2].table
    /\ metadata[2].table = 1
    /\ metadata[2].row = 0
    /\ archetypes[1].length = 1
    /\ Len(archetypes) = 2

\* C4: a component added by addComponent(id, bit) without a value holds the
\* layout's default value.
C4_AddWithoutValueGivesDefault ==
    [][\A id \in DOMAIN metadata : \A bit \in LayoutBits :
          (BitAnd(metadata[id].mask, bit) = 0 /\ AddComponent(id, bit, <<>>))
          => ComponentOf(id, bit)' = Fallback(bit)]_ecsVars

\* C5 as claimed: addComponent on a component the entity has, and
\* removeComponent on one it lacks, change nothing in the world.
C5_PresenceMatchIsNoOp ==
    [][\A id \in DOMAIN metadata : \A bit \in LayoutBits :
          /\ (BitAnd(metadata[id].mask, bit) # 0
                /\ \E arg \in ValueArgs : AddComponent(id, bit, arg))
             => UNCHANGED worldVars
          /\ (BitAnd(metadata[id].mask, bit) = 0 /\ RemoveComponent(id, bit))
             => UNCHANGED worldVars]_ecsVars

\* C5 amended: addComponent on a component the entity has does not migrate
\* (mask, archetype, row, table lengths and every other value are unchanged)
\* but overwrites the stored value of that bit with the value passed, 0 when
\* omitted; removeComponent on a component the entity lacks changes nothing.
C5_AddOverwritesRemoveIsNoOp ==
    [][\A id \in DOMAIN metadata : \A bit \in LayoutBits :
          LET meta == metadata[id] IN
          /\ \A arg \in ValueArgs :
               (BitAnd(meta.mask, bit) # 0 /\ AddComponent(id, bit, arg))
               => /\ UNCHANGED <<nextEntityId, metadata>>
                  /\ archetypes' =
                       [archetypes EXCEPT ![meta.table].columns[bit][meta.row] =
                           StoreAs(LayoutOf(bit).kind, IF arg = <<>> THEN 0 ELSE arg[1])]
          /\ (BitAnd(meta.mask, bit) = 0 /\ RemoveComponent(id, bit))
             => UNCHANGED worldVars]_ecsVars

\* Entity 2 never migrated (the world has one archetype) and the value of
\* its bit 2 was last given by an addComponent that omitted it: it holds 0,
\* next to entity 1, which still holds the default.
C5_Witness ==
    /\ nextEntityId = 3
    /\ Len(archetypes) = 1
    /\ archetypes[1].mask = 2
    /\ ref[2][2] = Omitted
    /\ ref[1][2] = Never
    /\ ComponentOf(2, 2) = 0
    /\ ComponentOf(1, 2) = 5

\* C6: a call on an entity id that was never created, and getComponent or
\* setComponent on a bit absent from the entity's mask, raises a LookupError
\* and leaves the world unchanged.
C6_LookupErrorLeavesWorld ==
    [][/\ \A id \in Ids \ DOMAIN metadata : \A bit \in LayoutBits :
            (\/ GetComponent(id, bit)
             \/ \E v \in Values : SetComponent(id, bit, v)
             \/ \E arg \in ValueArgs : AddComponent(id, bit, arg)
             \/ RemoveComponent(id, bit)
             \/ Deactivate(id))
            => (ret' = "LookupError" /\ UNCHANGED worldVars)
       /\ \A id \in DOMAIN metadata : \A bit \in LayoutBits :
            (BitAnd(metadata[id].mask, bit) = 0
               /\ (GetComponent(id, bit) \/ \E v \in Values : SetComponent(id, bit, v)))
            => (ret' = "LookupError" /\ UNCHANGED worldVars)]_ecsVars

\* A call failed in a world that holds two entities.
C6_Witness == ret = "LookupError" /\ nextEntityId = 3

\* C7: one iteration of a query over M yields each active entity whose mask
\* is a superset of M exactly once, and nothing else.
C7_QueryExact ==
    \A M \in AllMasks :
        LET q == QueryEntities(M) IN
        /\ \A i, j \in DOMAIN q : q[i] = q[j] => i = j
        /\ Range(q) = {id \in DOMAIN metadata :
                          metadata[id].active /\ BitAnd(metadata[id].mask, M) = M}

\* Four archetypes exist; a query over bit 2 finds one entity, the other
\* entity having bit 2 as well but being inactive.
C7_Witness ==
    /\ Len(archetypes) = 4
    /\ nextEntityId = 3
    /\ metadata[1].table # metadata[2].table
    /\ BitAnd(metadata[1].mask, 2) # 0
    /\ BitAnd(metadata[2].mask, 2) # 0
    /\ ~metadata[1].active
    /\ QueryEntities(2) = <<2>>

\* C8: deactivate changes only the active flag of its entity, whose
\* components stay readable; an inactive entity is never made active again
\* and keeps a row.
C8_DeactivateOnlyClearsFlag ==
    [][/\ \A id \in DOMAIN metadata :
            Deactivate(id)
            => /\ UNCHANGED <<nextEntityId, archetypes>>
               /\ metadata' = [metadata EXCEPT ![id].active = FALSE]
       /\ \A id \in DOMAIN metadata :
            ~metadata[id].active
            => /\ id \in DOMAIN metadata'
               /\ ~metadata'[id].active
               /\ metadata'[id].table \in DOMAIN archetypes'
               /\ metadata'[id].row < archetypes'[metadata'[id].table].length
               /\ EntityAt(archetypes'[metadata'[id].table], metadata'[id].row) = id
               /\ \A b \in LayoutBits :
                    BitAnd(metadata'[id].mask, b) # 0
                    => HasComponent(archetypes'[metadata'[id].table], b)]_ecsVars

\* An inactive entity alone in the third archetype the world created: it
\* was migrated around its deactivation.
C8_Witness ==
    /\ nextEntityId = 2
    /\ ~metadata[1].active
    /\ metadata[1].table = 3

----------------------------------------------------------------------------
(* Properties of the scheduler.                                            *)

CountOf(log, hook) == Cardinality({i \in DOMAIN log : log[i] = hook})

\* C9: a callback invokes FixedUpdate at most maxFixedStepsPerFrame times;
\* once the purge has fired (cap reached with accumulator >= fixedStep) the
\* accumulator is 0 through the end of the callback; and with fixedStep =
\* 1/60 s and a cap of 5, a callback that follows a gap of 5 s or more and
\* runs to its end, no hook calling stop(), makes exactly 5 FixedUpdate
\* invocations and leaves the accumulator at 0.
C9_StepCapAndPurge ==
    /\ CountOf(hookLog, "FixedUpdate") <= MaxFixedStepsPerFrame
    /\ cb.purged => accumulator = 0
    /\ (cb.state = "done" /\ cb.gapMs >= 5000 /\ ~cb.stopped)
       => /\ CountOf(hookLog, "FixedUpdate") = MaxFixedStepsPerFrame
          /\ cb.purged
          /\ accumulator = 0

\* The second simulated frame followed a 5 s gap with 19 ticks already in
\* the accumulator: five fixed steps ran and the accumulator is 0.
C9_Witness ==
    /\ cb.state = "done"
    /\ cb.gapMs >= 5000
    /\ ~cb.stopped
    /\ frameIndex = 2
    /\ CountOf(hookLog, "FixedUpdate") = 5
    /\ accumulator = 0
    /\ running

\* The first n entries of the log alternate FixedUpdate, AITick.
Alternates(log, n) ==
    \A i \in 1..n : log[i] = IF i % 2 = 1 THEN "FixedUpdate" ELSE "AITick"

\* The log is a prefix of (FixedUpdate AITick)* LateUpdate Render.
HookOrder ==
    \E n \in 0..Len(hookLog) :
        /\ Alternates(hookLog, n)
        /\ SubSeq(hookLog, n + 1, Len(hookLog))
              \in {<<>>, <<"LateUpdate">>, <<"LateUpdate", "Render">>}
        /\ n < Len(hookLog) => n % 2 = 0

\* The callback stands in the hook it invoked last, and one that ran to its
\* end invoked LateUpdate and Render once each, last.
HookLogMatchesCallback ==
    /\ pc = "fixedUpdate" => hookLog[Len(hookLog)] = "FixedUpdate"
    /\ pc = "aiTick" => hookLog[Len(hookLog)] = "AITick"
    /\ pc = "lateUpdate" => hookLog[Len(hookLog)] = "LateUpdate"
    /\ pc = "render" => hookLog[Len(hookLog)] = "Render"
    /\ cb.state = "done"
       => /\ Len(hookLog) >= 2
          /\ SubSeq(hookLog, Len(hookLog) - 1, Len(hookLog)) = <<"LateUpdate", "Render">>
          /\ CountOf(hookLog, "LateUpdate") = 1
          /\ CountOf(hookLog, "Render") = 1

\* The accumulator is decremented, and the step counted, when the AI tick
\* returns and not before; a callback starts only when none is running.
DecrementAfterAITick ==
    /\ (pc = "fixedUpdate" /\ pc' = "aiTick")
       => (accumulator' = accumulator /\ fixedSteps' = fixedSteps)
    /\ (pc = "aiTick" /\ pc' \in {"fixedUpdate", "lateUpdate"})
       => /\ fixedSteps' = fixedSteps + 1
          /\ accumulator' = Purged(accumulator - FixedStep, fixedSteps + 1)
    /\ (pc # "idle" /\ pc' # "idle")
       => (Len(hookLog') = Len(hookLog) + 1 \/ hookLog' = hookLog)
    /\ (pc # "idle" /\ hookLog' # hookLog)
       => SubSeq(hookLog', 1, Len(hookLog)) = hookLog

\* C10: the hooks of a simulating callback are invoked in the order
\* (FixedUpdate, AI tick)* LateUpdate Render: each FixedUpdate is followed
\* by its AI tick and then by the accumulator decrement, every fixed step
\* precedes LateUpdate, a callback that runs to its end invokes LateUpdate
\* and Render exactly once, in that order, and no callback starts while
\* another one is inside a hook.
C10_HookOrder ==
    [](HookOrder /\ HookLogMatchesCallback) /\ [][DecrementAfterAITick]_vars

\* A callback ran two fixed steps and then LateUpdate and Render.
C10_Witness ==
    /\ cb.state = "done"
    /\ hookLog = <<"FixedUpdate", "AITick", "FixedUpdate", "AITick", "LateUpdate", "Render">>
    /\ accumulator = 20

\* C11: while the scheduler is Stopped, no frame callback is pending and the
\* accumulator is zero, whether stop() was called between callbacks or
\* from inside a hook.
C11_StoppedIsQuiet == ~running => (pending = {} /\ accumulator = 0)

\* start() called while Running schedules nothing and keeps the timestamp.
StartIsIdempotent == (running /\ Start) => UNCHANGED <<pending, lastTimestampMs>>

\* C12: start() is idempotent from Running, and over any sequence of
\* start(), stop() and frame callbacks, start/stop inside hooks included,
\* at most one frame callback is pending at any time.
C12_SingleCallbackChain ==
    [](Cardinality(pending) <= 1) /\ [][StartIsIdempotent]_loopVars

\* The callback that runs first after a start() took effect simulates
\* nothing: no hook, accumulator and frame index unchanged, the timestamp
\* recorded and one callback requested in place of the one that ran.
FirstCallbackIsBaseline ==
    \A id \in pending, nowMs \in Stamps :
        (running /\ sinceStart = 0 /\ Tick(id, nowMs))
        => /\ pc' = "idle"
           /\ hookLog' = <<>>
           /\ cb'.state = "baseline"
           /\ UNCHANGED <<accumulator, frameIndex, running>>
           /\ lastTimestampMs' = <<nowMs>>
           /\ rafId' \notin pending \ {id}
           /\ pending' = (pending \ {id}) \cup {rafId'}

\* A timestamp the scheduler holds was recorded by a callback that ran
\* after the last start(): no gap is ever measured from before it.
TimestampIsSinceStart == lastTimestampMs # <<>> => (running /\ sinceStart >= 1)

\* C13: the first frame callback after every start() invokes no hook,
\* leaves the accumulator and the frame index as they are, records the
\* timestamp and reschedules; the time elapsed while Stopped is therefore
\* never added to the accumulator.
C13_FirstCallbackBaseline ==
    []TimestampIsSinceStart /\ [][FirstCallbackIsBaseline]_loopVars

\* The baseline callback of a restart: a frame was simulated before the
\* stop(), and the callback that followed the second start() only recorded
\* its timestamp, 5 s after the callbacks of the first session.
C13_Witness ==
    /\ cb.state = "baseline"
    /\ sinceStart = 1
    /\ frameIndex = 1
    /\ lastTimestampMs = <<5040>>
    /\ accumulator = 0
    /\ running

\* C14: two runs with the same configuration that have covered the same
\* wall time, here even in the same number of callbacks, have made the same
\* number of fixedUpdate calls and ticked the same sequence of AI buckets,
\* however the render phase spread the callbacks over that time.
C14_SameTimeSameSteps ==
    (/\ ElapsedMs(runs["A"]) = ElapsedMs(runs["B"])
     /\ runs["A"].callbacks = runs["B"].callbacks)
    => /\ runs["A"].fixedUpdates = runs["B"].fixedUpdates
       /\ runs["A"].buckets = runs["B"].buckets

\* C15: one AI bucket is ticked per fixed step, and any BucketCount
\* consecutive fixed steps process each of the BucketCount buckets exactly
\* once.
C15_BucketsRoundRobin ==
    Len(lastBuckets) = BucketCount
    => \A b \in 0..(BucketCount - 1) :
          Cardinality({i \in DOMAIN lastBuckets : lastBuckets[i] = b}) = 1

----------------------------------------------------------------------------
(* Properties of the worker bridge.                                        *)

\* The positions of `evts` that hold an event of kind `kind`.
EventsOf(evts, kind) == {i \in DOMAIN evts : evts[i].kind = kind}

\* What one call appended to the events.
Appended == SubSeq(events', Len(events) + 1, Len(events'))

\* step(frame, dt) did, for the registered channel c: one STEP message
\* with that payload posted to its worker, then one store of the frame
\* index in slot 0 of its block, then one notify on it.
SteppedChannel(new, c, frame, dt) ==
    \E i \in DOMAIN new :
        /\ i + 2 \in DOMAIN new
        /\ new[i] = [kind |-> "post", worker |-> c.worker,
                     live |-> c.worker \notin terminated,
                     message |-> [version |-> WORKER_PROTOCOL_VERSION, type |-> "STEP",
                                  domain |-> c.domain,
                                  payload |-> [frameIndex |-> frame, dt |-> dt]]]
        /\ new[i + 1] = [kind |-> "store", block |-> c.block, value |-> frame]
        /\ new[i + 2] = [kind |-> "notify", block |-> c.block, count |-> 1]
        /\ \A j \in EventsOf(new, "post") :
              (new[j].worker = c.worker /\ new[j].message.domain = c.domain) => j = i
        /\ \A j \in EventsOf(new, "store") \cup EventsOf(new, "notify") :
              new[j].block = c.block => j \in {i + 1, i + 2}

\* C16: step(f, dt) posts exactly one STEP message with payload (f, dt) to
\* every registered channel, stores f in slot 0 of that channel's block
\* exactly once and wakes that slot once after it; it posts nothing to and
\* writes nothing in a channel that is not registered.
C16_StepPublishesOncePerChannel ==
    [][\A frame \in FrameIndices :
          Step(frame, FixedStep)
          => /\ SubSeq(events', 1, Len(events)) = events
             /\ \A i \in DOMAIN channels :
                   /\ SteppedChannel(Appended, channels[i], frame, FixedStep)
                   /\ blocks'[channels[i].block] = frame
             /\ Len(Appended) = 3 * Len(channels)
             /\ \A b \in DOMAIN blocks :
                   (\A i \in DOMAIN channels : channels[i].block # b)
                   => blocks'[b] = blocks[b]
             /\ UNCHANGED <<channels, terminated>>]_bridgeVars

\* step(2) ran with two channels registered, after the channel of the
\* first block was replaced: blocks 2 and 3 hold 2, block 1 still holds 0.
C16_Witness ==
    /\ Len(channels) = 2
    /\ blocks = <<0, 2, 2>>
    /\ Len(events) = 9
    /\ events[9].kind = "notify"

\* shutdown did, for the registered channel c: one SHUTDOWN message posted
\* to its worker, and the worker terminated right after.
ShutChannel(new, c) ==
    \E i \in DOMAIN new :
        /\ i + 1 \in DOMAIN new
        /\ new[i].kind = "post"
        /\ new[i].worker = c.worker
        /\ new[i].message.type = "SHUTDOWN"
        /\ new[i].message.domain = c.domain
        /\ new[i + 1] = [kind |-> "terminate", worker |-> c.worker]
        /\ \A j \in EventsOf(new, "post") :
              (new[j].worker = c.worker /\ new[j].message.domain = c.domain) => j = i

\* One shutdown() call: a SHUTDOWN and a termination per registered
\* channel, nothing else, and an empty channel table.
ShutdownStep ==
    Shutdown
    => /\ SubSeq(events', 1, Len(events)) = events
       /\ \A i \in DOMAIN channels : ShutChannel(Appended, channels[i])
       /\ Len(Appended) = 2 * Len(channels)
       /\ terminated' = terminated \cup {channels[i].worker : i \in DOMAIN channels}
       /\ channels' = <<>>
       /\ blocks' = blocks

\* With no channel registered, step and sync do nothing.
QuietWithoutChannels ==
    (/\ channels = <<>>
     /\ \/ \E frame \in FrameIndices : Step(frame, FixedStep)
        \/ \E sequence \in SyncSequences : Sync(sequence))
    => UNCHANGED <<channels, blocks, terminated, events>>

\* The messages that reached worker w: those posted to it while it was
\* not terminated.
ReceivedBy(w) == {i \in EventsOf(events, "post") : events[i].worker = w /\ events[i].live}

\* The last message to reach a terminated worker is a SHUTDOWN.
ShutdownIsLast ==
    \A w \in terminated :
        /\ ReceivedBy(w) # {}
        /\ \E i \in ReceivedBy(w) :
              /\ events[i].message.type = "SHUTDOWN"
              /\ \A j \in ReceivedBy(w) : j <= i

\* C17: shutdown() posts exactly one SHUTDOWN to every registered channel,
\* terminates the channel's worker after posting it and leaves the channel
\* table empty; until createChannel is called again step() and sync() post
\* and publish nothing; SHUTDOWN is the last message a registered worker
\* receives.
C17_ShutdownIsFinal ==
    []ShutdownIsLast /\ [][ShutdownStep /\ QuietWithoutChannels]_bridgeVars

\* Two channels were shut down, then one more call found the table empty:
\* the events end with the second termination.
C17_Witness ==
    /\ bridgeCalls = 4
    /\ channels = <<>>
    /\ terminated = Workers
    /\ Len(events) = 6
    /\ events[6].kind = "terminate"

\* The live channels, each named by the INIT that created it: the worker
\* received the INIT and was not terminated since.
LiveChannels ==
    {i \in EventsOf(events, "post") :
        /\ events[i].message.type = "INIT"
        /\ events[i].live
        /\ events[i].worker \notin terminated}

\* C18: at most one live channel per domain, every live worker is the one
\* the channel table registers for its domain, and no two live channels
\* share a memory block.
C18_OneLiveChannelPerDomain ==
    /\ \A i, j \in LiveChannels :
          /\ events[i].message.domain = events[j].message.domain => i = j
          /\ i # j => events[i].message.payload.sharedBuffer
                        # events[j].message.payload.sharedBuffer
    /\ \A i \in LiveChannels :
          \E k \in DOMAIN channels :
              /\ channels[k].domain = events[i].message.domain
              /\ channels[k].worker = events[i].worker

----------------------------------------------------------------------------
(* Properties of the chunk streaming manager.                              *)

\* The keys within the exit radius of a focus chunk.
ExitKeys(focus) ==
    {KeyOf(x, y) : x \in (focus.cx - ExitRadiusChunks)..(focus.cx + ExitRadiusChunks),
                   y \in (focus.cy - ExitRadiusChunks)..(focus.cy + ExitRadiusChunks)}

\* One updateFocus, seen from the chunks: in the band between the radii an
\* active chunk stays, loaded, and an inactive one is not added; a chunk
\* leaves the active set only beyond the exit radius.
HysteresisStep ==
    \A x \in PositionsX, y \in PositionsY :
        UpdateFocus([x |-> x, y |-> y])
        => LET focus == WorldToChunk([x |-> x, y |-> y]) IN
           \A key \in DOMAIN activeChunks \cup ExitKeys(focus) :
               LET d == ChunkDistance(key[1], key[2], focus) IN
               /\ (key \in DOMAIN activeChunks /\ EnterRadiusChunks < d /\ d <= ExitRadiusChunks)
                  => (key \in DOMAIN activeChunks' /\ activeChunks'[key].loaded)
               /\ (key \notin DOMAIN activeChunks /\ EnterRadiusChunks < d /\ d <= ExitRadiusChunks)
                  => key \notin DOMAIN activeChunks'
               /\ (key \in DOMAIN activeChunks /\ key \notin DOMAIN activeChunks')
                  => d > ExitRadiusChunks

\* C19: an active chunk whose distance d to the new focus has
\* enterRadius < d <= exitRadius is still active, loaded, after updateFocus;
\* a chunk at such a distance that was not active is not added; a chunk is
\* removed only when d > exitRadius.
C19_ChunkHysteresis == [][HysteresisStep]_chunkVars

\* The focus moved from chunk (-1, 0) to chunk (2, 0): chunk (-4, 0), at
\* distance 6, stayed; chunk (8, 0), at distance 6 as well, was not added;
\* chunk (-5, 0), at distance 7, was removed.
C19_Witness ==
    /\ lastFocus = <<[cx |-> 2, cy |-> 0]>>
    /\ KeyOf(-4, 0) \in DOMAIN activeChunks
    /\ activeChunks[KeyOf(-4, 0)].loaded
    /\ KeyOf(8, 0) \notin DOMAIN activeChunks
    /\ KeyOf(-5, 0) \notin DOMAIN activeChunks
    /\ KeyOf(6, 0) \in DOMAIN activeChunks

\* The object is not handed out when release is called for it: the pool never
\* created it, or every acquire() that returned it was followed by a release.
NotAcquired(item) == item = Foreign \/ handedOut[item] = 0

\* The pool's books: no index is free twice, no index is both free and in
\* use, the in-use set is exactly the objects handed out, and the tracker's
\* count is its size.
PoolBooks ==
    /\ \A i, j \in 1..Len(freeIndices) : freeIndices[i] = freeIndices[j] => i = j
    /\ \A i \in 1..Len(freeIndices) : freeIndices[i] \notin inUse
    /\ inUse = {o \in 0..(MaxPoolObjects - 1) : handedOut[o] > 0}
    /\ debug.inUse = Cardinality(inUse)

\* release of an object that is not handed out only counts a leak suspect.
MisuseStep ==
    \A item \in (0..(objects - 1)) \cup {Foreign} :
        (Release(item) /\ NotAcquired(item)) =>
            /\ debug' = [debug EXCEPT !.leakSuspectCount = @ + 1]
            /\ UNCHANGED <<objects, freeIndices, inUse, handedOut>>

\* acquire returns an object that no holder has.
AcquireStep == Acquire => handedOut[acquired'[1]] = 0

\* C20: ObjectPool.release of an object that is not currently acquired (a
\* double release, or an object the pool never created) adds one to the
\* leak-suspect counter and changes nothing else (free list, in-use set and
\* in-use count are as before), so that after any sequence of acquire and
\* release calls no object is handed to two holders at once.
C20_MisuseOnlyCounts ==
    /\ [](PoolBooks /\ \A o \in 0..(MaxPoolObjects - 1) : handedOut[o] <= 1)
    /\ [][MisuseStep /\ AcquireStep]_vars

\* Releases of objects that were not handed out have been refused, and the
\* last call was an acquire that left one object in use and one free.
C20_Witness ==
    /\ debug.leakSuspectCount = MaxLeakSuspects
    /\ debug.highWaterMark >= 2
    /\ acquired # <<>>
    /\ freeIndices # <<>>
    /\ Cardinality(inUse) = 1

\* A callback in which stop() was called ran to its end: every fixed step
\* its loop had to run when it began, then LateUpdate, then Render.
StoppedCallbackRanWhole ==
    (cb.state = "done" /\ cb.stopped) =>
        /\ fixedSteps = cb.planned
        /\ Len(hookLog) >= 2
        /\ hookLog[Len(hookLog) - 1] = "LateUpdate"
        /\ hookLog[Len(hookLog)] = "Render"

\* A callback that fires while the scheduler is stopped invokes no hook.
StoppedCallbackIsIgnored ==
    \A id \in pending, nowMs \in Stamps :
        (~running /\ Tick(id, nowMs)) => (pc' = "idle" /\ hookLog' = <<>>)

\* C21: when stop() is called from inside a hook the running callback is not
\* aborted (its remaining fixed steps, LateUpdate and Render still run in
\* order) and no hook is invoked in a later callback until start() is called.
C21_CooperativeStop ==
    []StoppedCallbackRanWhole /\ [][StoppedCallbackIsIgnored]_vars

\* Running with no callback pending and none running: nothing will call tick.
Stalled == running /\ pending = {} /\ pc = "idle"

\* A hook throws in a callback of a running scheduler that has no other
\* callback pending (its hooks called neither stop() nor stop() and start()):
\* the error leaves tick, nothing is scheduled and running stays true.
ThrowStalls ==
    (HookThrows /\ running /\ pending = {}) =>
        (Stalled' /\ cb'.state = "thrown" /\ UNCHANGED <<rafId, hookLog, accumulator>>)

\* From there only stop() changes anything: no hook is invoked, and start()
\* schedules nothing.
StalledStays ==
    (Stalled /\ running') => (Stalled' /\ UNCHANGED <<hookLog, frameIndex, accumulator>>)

\* stop() followed by start() resumes the loop.
StopThenStartResumes ==
    /\ (Stalled /\ Stop) => (~running' /\ pending' = {})
    /\ (~running /\ pc = "idle" /\ Start) =>
           (running' /\ pending' = pending \cup {rafId'} /\ rafId' \notin pending)

\* C22: if a hook throws during a frame callback, the error propagates out
\* of the callback, no next callback is scheduled and the scheduler stays
\* Running; from then on no hook is invoked and start() does not resume the
\* loop, only stop() followed by start() does.
C22_ThrowStallsTheLoop ==
    /\ [](Stalled => cb.state = "thrown")
    /\ [][ThrowStalls /\ StalledStays /\ StopThenStartResumes]_vars

\* render threw in a callback that had run a fixed step; the scheduler is
\* still Running and nothing is pending.
C22_Witness ==
    /\ Stalled
    /\ cb.state = "thrown"
    /\ hookLog = <<"FixedUpdate", "AITick", "LateUpdate", "Render">>

\* C23: whenever LateUpdate and Render are invoked, 0 <= accumulator <
\* fixedStep, so the alpha passed to them lies in [0, 1), and the frameDt
\* passed lies in [0, maxFrameDelta], for every sequence of callback
\* timestamps and for start()/stop() calls made from inside hooks.
C23_AlphaInUnitInterval ==
    pc \in {"lateUpdate", "render"} =>
        /\ 0 <= accumulator /\ accumulator < FixedStep
        /\ 0 <= alphaTicks /\ alphaTicks < FixedStep
        /\ 0 <= frameDt /\ frameDt <= MaxFrameDelta

\* What the world shows of an entity: its mask, its active flag and the
\* value of each component of its mask.
Observed(md, arch, id) ==
    [mask   |-> md[id].mask,
     active |-> md[id].active,
     values |-> [b \in {x \in LayoutBits : BitAnd(md[id].mask, x) # 0} |->
                   ReadComponent(arch[md[id].table], md[id].row, b)]]

\* Every entity but `entityId` shows after the step what it showed before.
OthersUntouched(entityId) ==
    \A other \in DOMAIN metadata \ {entityId} :
        /\ other \in DOMAIN metadata'
        /\ Observed(metadata', archetypes', other) = Observed(metadata, archetypes, other)

\* The step is a call of addComponent, removeComponent, setComponent or
\* deactivate on `entityId`.
OperationOn(entityId) ==
    \/ \E bit \in LayoutBits, arg \in ValueArgs : AddComponent(entityId, bit, arg)
    \/ \E bit \in LayoutBits : RemoveComponent(entityId, bit)
    \/ \E bit \in LayoutBits, v \in Values : SetComponent(entityId, bit, v)
    \/ Deactivate(entityId)

\* C24: an operation on entity A (addComponent, removeComponent,
\* setComponent, deactivate) leaves the mask, the active flag and every
\* component value of every other entity B unchanged, including the entity
\* that swap-remove relocates into A's former row and the entities already
\* present in the target archetype.
C24_OtherEntitiesUntouched ==
    [][\A entityId \in Ids : OthersUntouched(entityId) \/ ~OperationOn(entityId)]_vars

\* Entity 2 holds a written value in the table of mask 3, which it shares
\* with entity 1: entity 1 joined that table after entity 2, by a migration.
C24_Witness ==
    /\ nextEntityId = 3
    /\ metadata[1].mask = 3
    /\ metadata[2].mask = 3
    /\ metadata[2].row = 0
    /\ metadata[1].row = 1
    /\ ref[2][2] = Wrote(16777217)
    /\ ComponentOf(2, 2) = 16777217

\* What slot 0 of `block` holds once the first k events have happened: the
\* value of the last store into it, 0 (a fresh SharedArrayBuffer) before any.
SlotAfter(k, block) ==
    LET stores == {i \in 1..k : events[i].kind = "store" /\ events[i].block = block}
    IN IF stores = {} THEN 0
       ELSE events[CHOOSE i \in stores : \A j \in stores : j <= i].value

\* Among the first k events, a STEP message with frame index f was posted
\* to the worker that was handed `block` in its INIT.
StepPostedBy(k, block, f) ==
    \E i, j \in 1..k :
        /\ events[i].kind = "post"
        /\ events[i].message.type = "INIT"
        /\ events[i].message.payload.sharedBuffer = block
        /\ events[j].kind = "post"
        /\ events[j].message.type = "STEP"
        /\ events[j].message.payload.frameIndex = f
        /\ events[j].worker = events[i].worker
        /\ events[j].message.domain = events[i].message.domain

\* Whenever a worker reads slot 0 of a block, between any two things the
\* bridge does, it finds 0 or a frame index already posted in a STEP.
SlotFollowsStep ==
    \A k \in 0..Len(events), block \in DOMAIN blocks :
        \/ SlotAfter(k, block) = 0
        \/ StepPostedBy(k, block, SlotAfter(k, block))

\* The blocks are what the stores made them.
BlocksAreStores == \A block \in DOMAIN blocks : blocks[block] = SlotAfter(Len(events), block)

\* createChannel, sync and shutdown store nothing.
OnlyStepStores ==
    (\/ \E domain \in Domains, worker \in Workers : CreateChannel(domain, worker)
     \/ \E sequence \in SyncSequences : Sync(sequence)
     \/ Shutdown)
    => /\ EventsOf(Appended, "store") = {}
       /\ \A block \in DOMAIN blocks : blocks'[block] = blocks[block]

\* C25: control slot 0 of a channel's block is written only by step(): at
\* every point, for every interleaving with a worker reading the slot, it
\* holds 0 or a frame index f for which a STEP message with frameIndex f has
\* already been posted to that channel's worker; createChannel, sync() and
\* shutdown() never change it.
C25_SlotFollowsStep ==
    [](SlotFollowsStep /\ BlocksAreStores) /\ [][OnlyStepStores]_bridgeVars

\* Two steps published frame 1 and then frame 2 on a channel, and a sync
\* followed: the block still holds 2.
C25_Witness ==
    /\ Len(channels) = 1
    /\ blocks = <<2>>
    /\ Len(events) = 8
    /\ events[3].kind = "store" /\ events[3].value = 1
    /\ events[8].kind = "post" /\ events[8].message.type = "SYNC"

\* C26: every chunk in the set returned by updateFocus(p), after any
\* sequence of earlier updateFocus calls, carries a distance equal to its
\* Chebyshev chunk distance to the focus chunk of p and the priority derived
\* from that distance; the set contains every chunk within enterRadius of
\* the focus and no chunk beyond exitRadius.
C26_ChunkStateIsCurrent ==
    lastFocus # <<>> =>
        /\ \A key \in DOMAIN activeChunks :
              LET chunk    == activeChunks[key]
                  distance == ChunkDistance(chunk.cx, chunk.cy, lastFocus[1])
              IN /\ chunk.distance = distance
                 /\ chunk.priority = ComputePriority(distance)
                 /\ distance <= ExitRadiusChunks
        /\ EnterKeys(lastFocus[1]) \subseteq DOMAIN activeChunks
====
